---- MODULE Spec2Model ----
(***************************************************************************)
(* A model of library.py: the Game class (scene grid, navigation, click    *)
(* dispatch, the scripted hotspot actions) and the GoogleBooksAPI lookup.  *)
(*                                                                         *)
(*   Spec        the program as shipped: Game.__init__, the nine           *)
(*               add_location calls of main(), then Game.run()             *)
(*   SpecClient  the Game class driven by an arbitrary client: any         *)
(*               add_location calls, any start position and loading flag,  *)
(*               then Game.run()                                           *)
(*   SpecFetch   GoogleBooksAPI.get_random_book_with_retries over a        *)
(*               stubbed transport                                         *)
(***************************************************************************)
EXTENDS Integers, Sequences, FiniteSets, TLC

\* Python's None: as a string where the other values are strings, as a record
\* where they are records, as the empty tuple where they are tuples
None == "None"
Nothing == [none |-> TRUE]
NoPoint == << >>

\* ------------------------------------------------------------------ bounds
\* events posted and not yet handled (queued, or fetched by the frame) at one time
MaxPending == 2
\* add_location calls made by the client of SpecClient
MaxAdds == 2
\* largest max_retries passed to get_random_book_with_retries in SpecFetch
MaxRetries == 3

\* ------------------------------------------------------- program constants
screen_width == 1200
screen_height == 1200
arrow_size == 50
flicker_duration == 1000
flicker_interval == 100
flicker_delay == 50
default_max_retries == 3

\* ------------------------------------------------------------- directions
NORTH == "NORTH"
EAST == "EAST"
SOUTH == "SOUTH"
WEST == "WEST"
Direction == {NORTH, EAST, SOUTH, WEST}

\* ---------------------------------------------------------------- geometry
Rect(x, y, w, h) == [x |-> x, y |-> y, w |-> w, h |-> h]

collidepoint(rect, p) ==
    /\ rect.x <= p[1] /\ p[1] < rect.x + rect.w
    /\ rect.y <= p[2] /\ p[2] < rect.y + rect.h

\* self.arrows, in the insertion order of the dict
ArrowOrder == <<NORTH, SOUTH, WEST, EAST>>

arrows ==
    [d \in Direction |->
        CASE d = NORTH -> Rect(screen_width \div 2 - arrow_size \div 2, 10, arrow_size, arrow_size)
          [] d = SOUTH -> Rect(screen_width \div 2 - arrow_size \div 2, screen_height - arrow_size - 10, arrow_size, arrow_size)
          [] d = WEST  -> Rect(10, screen_height \div 2 - arrow_size \div 2, arrow_size, arrow_size)
          [] d = EAST  -> Rect(screen_width - arrow_size - 10, screen_height \div 2 - arrow_size \div 2, arrow_size, arrow_size)]

\* ------------------------------------------------------------------ scenes
\* a hotspot: its key in the dict, its rectangle, and the callable bound to it
Hotspot(name, rect, action) == [name |-> name, rect |-> rect, action |-> action]

\* Location(image_path, allowed_directions, hotspots); hotspots in insertion order
Location(image_path, allowed_directions, hotspots) ==
    [image_path |-> image_path, allowed_directions |-> allowed_directions,
     hotspots |-> hotspots, image |-> None]

library_location ==
    Location("scene1", {EAST, SOUTH},
        << Hotspot("bookshelf1", Rect(6, 236, 992, 350), "bookshelf_action"),
           Hotspot("bookshelf2", Rect(586, 472, 400, 500), "bookshelf_action") >>)

location2 ==
    Location("scene2", {WEST, EAST, SOUTH},
        << Hotspot("bookshelf3", Rect(6, 670, 400, 400), "bookshelf_action"),
           Hotspot("bookshelf4", Rect(764, 670, 400, 400), "bookshelf_action") >>)

\* scene3 declared without its exit to the west
location3_NoExit == Location("scene3", {}, << >>)

location3 == Location("scene3", {WEST}, << >>)

location4 == Location("scene4", {NORTH, EAST, SOUTH}, << >>)

location5 == Location("scene5", {NORTH, EAST, SOUTH, WEST}, << >>)

location6 ==
    Location("scene6", {WEST, SOUTH},
        << Hotspot("bookshelf5", Rect(6, 6, 1000, 500), "bookshelf_action"),
           Hotspot("bookshelf6", Rect(764, 670, 400, 400), "bookshelf_action"),
           Hotspot("door1", Rect(522, 508, 400, 400), "door6_action") >>)

location7 == Location("scene7", {NORTH, EAST}, << >>)

location8 == Location("scene8", {NORTH, EAST, WEST}, << >>)

location9 ==
    Location("scene9", {NORTH, WEST},
        << Hotspot("bookshelf7", Rect(50, 300, 500, 500), "bookshelf_action"),
           Hotspot("bookshelf8", Rect(764, 670, 400, 400), "bookshelf_action"),
           Hotspot("bookfloor", Rect(350, 850, 300, 300), "bookfloor_action") >>)

\* the add_location calls of main(), in order
MainLayout ==
    << <<<<0, 0>>, library_location>>, <<<<1, 0>>, location2>>, <<<<2, 0>>, location3>>,
       <<<<0, 1>>, location4>>, <<<<1, 1>>, location5>>, <<<<2, 1>>, location6>>,
       <<<<0, 2>>, location7>>, <<<<1, 2>>, location8>>, <<<<2, 2>>, location9>> >>

\* ------------------------------------------------------ inputs of the model
\* pointer positions on the 1200x1200 screen: one inside each arrow, and points
\* inside the hotspot rectangles of main() (several of which overlap)
PointNorth == <<600, 30>>
PointSouth == <<600, 1160>>
PointWest == <<55, 580>>
PointEast == <<1150, 600>>
PointShelves == <<800, 500>>
PointDoor == <<800, 700>>
PointDoorOnly == <<600, 600>>
PointFloor == <<400, 900>>
Points ==
    {PointNorth, PointSouth, PointWest, PointEast,
     PointShelves, PointDoor, PointDoorOnly, PointFloor}

\* volume records of a catalog response: volumeInfo.title, volumeInfo.previewLink
Volume(title, previewLink) == [title |-> title, previewLink |-> previewLink]
VolumeA == Volume("A", "http://a")
VolumeB == Volume("B", "http://b")
VolumeNoPreview == Volume("C", "")

\* what one requests.get can yield: a RequestException, or the JSON body
\* (totalItems, and items when the key is present)
RequestException == [exception |-> "RequestException"]
Body(totalItems, items) == [totalItems |-> totalItems, items |-> items]
BodyWithoutItems(totalItems) == [totalItems |-> totalItems]
Responses ==
    {RequestException,
     BodyWithoutItems(0),
     Body(0, <<VolumeA>>),
     BodyWithoutItems(2),
     Body(1, <<VolumeNoPreview>>),
     Body(2, <<VolumeNoPreview, VolumeA>>),
     Body(2, <<VolumeA, VolumeB>>)}

\* positions and scenes a client of the Game class registers in SpecClient;
\* <<3, 0>> and <<-1, 0>> are outside the grid
ClientPositions == {<<0, 0>>, <<1, 0>>, <<1, 1>>, <<3, 0>>, <<-1, 0>>}
StartPositions == {<<0, 0>>, <<1, 0>>, <<1, 1>>, <<1, 2>>}
north_only == Location("north_only", {NORTH}, << >>)
ClientLocations == {library_location, location3, north_only}

\* ------------------------------------------------------------------- state
VARIABLES
    pc,               \* where the main thread is
    api_key,          \* whether GOOGLE_BOOKS_API_KEY is set in the environment
    window,           \* whether the display has been created
    error,            \* the exception that ended the program, if any
    adds,             \* add_location calls made so far
    last_add,         \* arguments of the add_location call that returned last, during setup
    locations,        \* Game.locations: grid position -> Location
    current_pos,      \* Game.current_pos
    loading,          \* Game.loading
    running,          \* run(): running
    current_location, \* run(): current_location, read once per frame
    queue,            \* events waiting in the window system's queue
    batch,            \* run(): events of this frame's pygame.event.get() not yet handled
    mouse_pos,        \* run(): mouse_pos, while the hotspot loop can still read it
    hot,              \* run(): index of the hotspot under test in the hotspot loop
    elapsed,          \* flicker loops: get_ticks() - start_time
    screen,           \* what the display shows: image and arrows drawn
    book,             \* handle_bookshelf_click: book
    viewer,           \* the webview process: "none", "running", "exited"
    steps,            \* steps the running bookshelf sequence has taken
    lookups,          \* get_random_book calls of the running bookshelf sequence
    nav,              \* whether the click being handled navigated
    fired,            \* names of the hotspots whose action the click being handled fired
    last_event,       \* how the last event of this frame was handled
    max_retries,      \* get_random_book_with_retries: max_retries
    tries,            \* get_random_book_with_retries: iterations of the loop started
    attempt_log,      \* result of each get_random_book call of the retry loop
    result            \* get_random_book_with_retries: returned value

vars ==
    <<pc, api_key, window, error, adds, last_add, locations, current_pos, loading,
      running, current_location, queue, batch, mouse_pos, hot, elapsed, screen, book,
      viewer, steps, lookups, nav, fired, last_event, max_retries, tries, attempt_log,
      result>>

gameVars == <<locations, current_pos, loading, running, current_location>>
eventVars == <<queue, batch>>
clickVars == <<mouse_pos, nav, fired, last_event>>
bookVars == <<book, viewer, steps, lookups>>
fetchVars == <<max_retries, tries, attempt_log, result>>
startVars == <<api_key, window, error, adds, last_add>>

\* ------------------------------------------------------------ Game.__init__
NoScreen == [image |-> None, arrows |-> {}]

\* the state before Game(1200, 1200) is called
Init ==
    /\ pc = "init"
    /\ api_key \in BOOLEAN
    /\ window = FALSE
    /\ error = None
    /\ adds = 0
    /\ last_add = Nothing
    /\ locations = << >>
    /\ current_pos = <<1, 2>>
    /\ loading = FALSE
    /\ running = FALSE
    /\ current_location = Nothing
    /\ queue = << >>
    /\ batch = << >>
    /\ mouse_pos = NoPoint
    /\ hot = 0
    /\ elapsed = 0
    /\ screen = NoScreen
    /\ book = Nothing
    /\ viewer = "none"
    /\ steps = << >>
    /\ lookups = 0
    /\ nav = FALSE
    /\ fired = << >>
    /\ last_event = None
    /\ max_retries = 0
    /\ tries = 0
    /\ attempt_log = << >>
    /\ result = Nothing

\* pygame.init(); pygame.display.set_mode(...); set_caption(...)
DisplaySetMode ==
    /\ pc = "init"
    /\ window' = TRUE
    /\ pc' = "api_init"
    /\ UNCHANGED <<api_key, error, adds, last_add, gameVars, eventVars, clickVars, hot, elapsed,
                   screen, bookVars, fetchVars>>

\* self.books_api = GoogleBooksAPI(): raises ValueError without a key; then the
\* mixer, the font, loading = False, the arrows, current_pos = (1, 2), locations = {}
BooksAPIInit ==
    /\ pc = "api_init"
    /\ IF api_key
          THEN /\ pc' = "setup"
               /\ error' = error
               /\ loading' = FALSE
               /\ current_pos' = <<1, 2>>
               /\ locations' = << >>
          ELSE /\ pc' = "crashed"
               /\ error' = "ValueError"
               /\ UNCHANGED <<loading, current_pos, locations>>
    /\ UNCHANGED <<api_key, window, adds, last_add, running, current_location, eventVars, clickVars,
                   hot, elapsed, screen, bookVars, fetchVars>>

\* ------------------------------------------------------- Grid and navigation
InBounds(grid_pos) ==
    /\ 0 <= grid_pos[1] /\ grid_pos[1] < 3
    /\ 0 <= grid_pos[2] /\ grid_pos[2] < 3

\* add_location without the bounds check
add_location_NoBoundsCheck(grid_pos, location) ==
    [p \in (DOMAIN locations) \cup {grid_pos} |->
        IF p = grid_pos
           THEN [location EXCEPT !.image = location.image_path]
           ELSE locations[p]]

\* Game.add_location: the value of self.locations after the call
add_location(grid_pos, location) ==
    IF InBounds(grid_pos)
       THEN [p \in (DOMAIN locations) \cup {grid_pos} |->
                IF p = grid_pos
                   THEN [location EXCEPT !.image = location.image_path]
                   ELSE locations[p]]
       ELSE locations

\* self.locations.get(pos)
locations_get(pos) == IF pos \in DOMAIN locations THEN locations[pos] ELSE Nothing

\* get_new_position with the x steps of WEST and EAST exchanged
get_new_position_WestEastSwapped(direction) ==
    LET x == current_pos[1]
        y == current_pos[2]
    IN  CASE direction = NORTH -> <<x, y - 1>>
          [] direction = SOUTH -> <<x, y + 1>>
          [] direction = WEST  -> <<x + 1, y>>
          [] direction = EAST  -> <<x - 1, y>>
          [] OTHER -> current_pos

get_new_position(direction) ==
    LET x == current_pos[1]
        y == current_pos[2]
    IN  CASE direction = NORTH -> <<x, y - 1>>
          [] direction = SOUTH -> <<x, y + 1>>
          [] direction = WEST  -> <<x - 1, y>>
          [] direction = EAST  -> <<x + 1, y>>
          [] OTHER -> current_pos

\* can_move without the check that the destination holds a scene
can_move_NoDestination(direction) ==
    IF locations_get(current_pos) = Nothing
       THEN FALSE
       ELSE direction \in locations_get(current_pos).allowed_directions

can_move(direction) ==
    IF locations_get(current_pos) = Nothing
       THEN FALSE
       ELSE IF direction \notin locations_get(current_pos).allowed_directions
               THEN FALSE
               ELSE get_new_position(direction) \in DOMAIN locations

\* main(): the next add_location call
MainAddLocation ==
    /\ pc = "setup"
    /\ adds < Len(MainLayout)
    /\ locations' = add_location(MainLayout[adds + 1][1], MainLayout[adds + 1][2])
    /\ last_add' = [grid_pos |-> MainLayout[adds + 1][1], location |-> MainLayout[adds + 1][2]]
    /\ adds' = adds + 1
    /\ UNCHANGED <<pc, api_key, window, error, current_pos, loading, running,
                   current_location, eventVars, clickVars, hot, elapsed, screen,
                   bookVars, fetchVars>>

\* main(): game.run()
MainRun ==
    /\ pc = "setup"
    /\ adds = Len(MainLayout)
    /\ pc' = "frame"
    /\ running' = TRUE
    /\ last_add' = Nothing
    /\ UNCHANGED <<api_key, window, error, adds, locations, current_pos, loading,
                   current_location, eventVars, clickVars, hot, elapsed, screen,
                   bookVars, fetchVars>>

\* a client of the class registers a scene
ClientAddLocation ==
    /\ pc = "setup"
    /\ adds < MaxAdds
    /\ \E grid_pos \in ClientPositions, location \in ClientLocations :
          /\ locations' = add_location(grid_pos, location)
          /\ last_add' = [grid_pos |-> grid_pos, location |-> location]
    /\ adds' = adds + 1
    /\ UNCHANGED <<pc, api_key, window, error, current_pos, loading, running,
                   current_location, eventVars, clickVars, hot, elapsed, screen,
                   bookVars, fetchVars>>

\* a client of the class sets the public attributes current_pos and loading,
\* then calls run()
ClientRun ==
    /\ pc = "setup"
    /\ current_pos' \in StartPositions
    /\ loading' \in BOOLEAN
    /\ pc' = "frame"
    /\ running' = TRUE
    /\ last_add' = Nothing
    /\ UNCHANGED <<api_key, window, error, adds, locations, current_location, eventVars,
                   clickVars, hot, elapsed, screen, bookVars, fetchVars>>

\* ------------------------------------------------------------------ events
QUIT == "QUIT"
MOUSEBUTTONDOWN == "MOUSEBUTTONDOWN"

\* the main thread is inside a scripted hotspot action
ModalPcs == {"bs_wait1", "bs_wait2", "bs_got", "bs_join", "bs_end", "door_loop", "floor_loop"}
InModal == pc \in ModalPcs

RunPcs == {"frame", "events", "hotspots"} \cup ModalPcs

\* the window system queues an event; blocked records whether a scripted
\* action was running when it arrived. Events that arrive before run() is
\* called are still in the queue at the first frame, so posting from the
\* first frame on loses no behaviour.
PostEvent ==
    /\ pc \in RunPcs
    /\ Len(queue) + Len(batch) < MaxPending
    /\ \E type \in {QUIT, MOUSEBUTTONDOWN} :
          queue' = Append(queue, [type |-> type,
                                  blocked |-> (type = MOUSEBUTTONDOWN /\ InModal)])
    /\ UNCHANGED <<pc, startVars, gameVars, batch, clickVars, hot, elapsed, screen,
                   bookVars, fetchVars>>

\* ------------------------------------------------------------------ Game.run
\* while running: current_location = self.locations.get(self.current_pos);
\* pygame.event.get() takes every queued event
FrameStart ==
    /\ pc = "frame"
    /\ running
    /\ current_location' = locations_get(current_pos)
    /\ batch' = queue
    /\ queue' = << >>
    /\ pc' = "events"
    /\ UNCHANGED <<startVars, locations, current_pos, loading, running, clickVars, hot,
                   elapsed, screen, bookVars, fetchVars>>

\* the while condition fails: pygame.quit(); sys.exit()
LoopExit ==
    /\ pc = "frame"
    /\ ~running
    /\ pc' = "done"
    /\ window' = FALSE
    /\ UNCHANGED <<api_key, error, adds, last_add, gameVars, eventVars, clickVars, hot, elapsed,
                   screen, bookVars, fetchVars>>

\* event.type == pygame.QUIT
HandleQuit ==
    /\ pc = "events"
    /\ batch # << >>
    /\ Head(batch).type = QUIT
    /\ running' = FALSE
    /\ batch' = Tail(batch)
    /\ last_event' = "quit"
    /\ UNCHANGED <<pc, startVars, locations, current_pos, loading, current_location, queue,
                   mouse_pos, nav, fired, hot, elapsed, screen, bookVars, fetchVars>>

\* the arrow loop without "and self.can_move(direction)"
RECURSIVE ArrowHit_NoCanMove(_, _)
ArrowHit_NoCanMove(p, i) ==
    IF i > Len(ArrowOrder)
       THEN None
       ELSE IF collidepoint(arrows[ArrowOrder[i]], p)
               THEN ArrowOrder[i]
               ELSE ArrowHit_NoCanMove(p, i + 1)

\* the arrow loop: the direction of the first arrow, in dict order from index i,
\* that contains p and can be moved to; None when there is none
RECURSIVE ArrowHit(_, _)
ArrowHit(p, i) ==
    IF i > Len(ArrowOrder)
       THEN None
       ELSE IF collidepoint(arrows[ArrowOrder[i]], p) /\ can_move(ArrowOrder[i])
               THEN ArrowOrder[i]
               ELSE ArrowHit(p, i + 1)

\* the click branch without "and not self.loading"
HandleClick_NoLoadingCheck ==
    /\ pc = "events"
    /\ batch # << >>
    /\ Head(batch).type = MOUSEBUTTONDOWN
    /\ batch' = Tail(batch)
    /\ fired' = << >>
    /\ last_event' = "click"
    /\ \E p \in Points :
          LET direction == ArrowHit(p, 1)
          IN  /\ current_pos' = IF direction # None
                                   THEN get_new_position(direction)
                                   ELSE current_pos
              /\ nav' = (direction # None)
              /\ mouse_pos' = IF current_location # Nothing THEN p ELSE NoPoint
    /\ IF current_location # Nothing
          THEN pc' = "hotspots" /\ hot' = 1
          ELSE pc' = "events" /\ hot' = 0
    /\ UNCHANGED <<startVars, locations, loading, running, current_location, queue,
                   elapsed, screen, bookVars, fetchVars>>

\* a MOUSEBUTTONDOWN event. While self.loading the elif is not taken and the
\* event is dropped, the pointer position is not read. Otherwise
\* mouse_pos = pygame.mouse.get_pos(), the arrow loop moves at most once, and
\* the hotspot loop follows when the frame has a location (mouse_pos is not
\* read again when it has none).
HandleClick ==
    /\ pc = "events"
    /\ batch # << >>
    /\ Head(batch).type = MOUSEBUTTONDOWN
    /\ batch' = Tail(batch)
    /\ fired' = << >>
    /\ IF loading
          THEN /\ last_event' = "ignored"
               /\ nav' = FALSE
               /\ UNCHANGED <<current_pos, pc, hot, mouse_pos>>
          ELSE /\ last_event' = "click"
               /\ \E p \in Points :
                     LET direction == ArrowHit(p, 1)
                     IN  /\ current_pos' = IF direction # None
                                              THEN get_new_position(direction)
                                              ELSE current_pos
                         /\ nav' = (direction # None)
                         /\ mouse_pos' = IF current_location # Nothing THEN p ELSE NoPoint
               /\ IF current_location # Nothing
                     THEN pc' = "hotspots" /\ hot' = 1
                     ELSE pc' = "events" /\ hot' = 0
    /\ UNCHANGED <<startVars, locations, loading, running, current_location, queue,
                   elapsed, screen, bookVars, fetchVars>>

\* the hotspot loop: the hotspot under test does not contain mouse_pos
HotspotMiss ==
    /\ pc = "hotspots"
    /\ hot <= Len(current_location.hotspots)
    /\ ~collidepoint(current_location.hotspots[hot].rect, mouse_pos)
    /\ hot' = hot + 1
    /\ UNCHANGED <<pc, startVars, gameVars, eventVars, clickVars, elapsed, screen,
                   bookVars, fetchVars>>

\* the hotspot loop is over (mouse_pos is not read again): on to the next
\* event of the frame
HotspotsDone ==
    /\ pc = "hotspots"
    /\ hot > Len(current_location.hotspots)
    /\ hot' = 0
    /\ mouse_pos' = NoPoint
    /\ pc' = "events"
    /\ UNCHANGED <<startVars, gameVars, eventVars, nav, fired, last_event, elapsed, screen,
                   bookVars, fetchVars>>

\* the hotspot under test contains mouse_pos and is bound to this action
Hit(action) ==
    /\ pc = "hotspots"
    /\ hot <= Len(current_location.hotspots)
    /\ collidepoint(current_location.hotspots[hot].rect, mouse_pos)
    /\ current_location.hotspots[hot].action = action

\* a scripted action returns to the hotspot loop
ReturnToLoop ==
    /\ pc' = "hotspots"
    /\ hot' = hot + 1

SceneScreen(image) == [image |-> image, arrows |-> {}]

\* the end of a frame: draw the frame's location and its arrows, or the loading
\* message; pygame.display.flip()
Draw ==
    /\ pc = "events"
    /\ batch = << >>
    /\ screen' = IF loading
                    THEN SceneScreen("loading_text")
                    ELSE IF current_location # Nothing /\ current_location.image # None
                            THEN [image |-> current_location.image,
                                  arrows |-> {d \in Direction : can_move(d)}]
                            ELSE screen
    /\ pc' = "frame"
    /\ nav' = FALSE
    /\ fired' = << >>
    /\ last_event' = None
    /\ UNCHANGED <<startVars, gameVars, eventVars, mouse_pos, hot, elapsed, bookVars,
                   fetchVars>>

\* ------------------------------------------------------------ GoogleBooksAPI
\* the dict get_random_book builds from a volume record
Item(volume) == [title |-> volume.title, preview_link |-> volume.previewLink]

\* random.shuffle(data['items']): every order of the items
Shuffles(items) ==
    {[i \in 1..Len(items) |-> items[f[i]]] : f \in Permutations(1..Len(items))}

\* the scan of the shuffled items: the first one with a truthy previewLink
RECURSIVE FirstPreviewable(_, _)
FirstPreviewable(items, i) ==
    IF i > Len(items)
       THEN Nothing
       ELSE IF items[i].previewLink # ""
               THEN Item(items[i])
               ELSE FirstPreviewable(items, i + 1)

\* get_random_book without the test of totalItems
get_random_book_NoCountCheck(resp) ==
    IF "exception" \in DOMAIN resp
       THEN {Nothing}
       ELSE IF "items" \in DOMAIN resp
               THEN {FirstPreviewable(shuffled, 1) : shuffled \in Shuffles(resp.items)}
               ELSE {Nothing}

\* get_random_book: the values it can return when requests.get yields resp
get_random_book(resp) ==
    IF "exception" \in DOMAIN resp
       THEN {Nothing}
       ELSE IF resp.totalItems > 0 /\ "items" \in DOMAIN resp
               THEN {FirstPreviewable(shuffled, 1) : shuffled \in Shuffles(resp.items)}
               ELSE {Nothing}

\* the retry loop over range(max_retries + 1)
RetryAttempt_OneMore ==
    /\ pc = "fetch_loop"
    /\ tries <= max_retries
    /\ tries' = tries + 1
    /\ \E resp \in Responses : \E b \in get_random_book(resp) :
          /\ attempt_log' = Append(attempt_log, [response |-> resp, result |-> b])
          /\ IF b # Nothing
                THEN result' = b /\ pc' = "fetch_done"
                ELSE result' = result /\ pc' = pc
    /\ UNCHANGED <<startVars, gameVars, eventVars, clickVars, hot, elapsed, screen,
                   bookVars, max_retries>>

\* the retry loop keeping the result but not returning from inside the loop
RetryAttempt_NoEarlyReturn ==
    /\ pc = "fetch_loop"
    /\ tries < max_retries
    /\ tries' = tries + 1
    /\ \E resp \in Responses : \E b \in get_random_book(resp) :
          /\ attempt_log' = Append(attempt_log, [response |-> resp, result |-> b])
          /\ result' = b
          /\ pc' = pc
    /\ UNCHANGED <<startVars, gameVars, eventVars, clickVars, hot, elapsed, screen,
                   bookVars, max_retries>>

\* get_random_book_with_retries: one iteration of the loop
RetryAttempt ==
    /\ pc = "fetch_loop"
    /\ tries < max_retries
    /\ tries' = tries + 1
    /\ \E resp \in Responses : \E b \in get_random_book(resp) :
          /\ attempt_log' = Append(attempt_log, [response |-> resp, result |-> b])
          /\ IF b # Nothing
                THEN result' = b /\ pc' = "fetch_done"
                ELSE result' = result /\ pc' = pc
    /\ UNCHANGED <<startVars, gameVars, eventVars, clickVars, hot, elapsed, screen,
                   bookVars, max_retries>>

\* get_random_book_with_retries: the loop is exhausted, return None
RetryExhausted ==
    /\ pc = "fetch_loop"
    /\ tries >= max_retries
    /\ result' = Nothing
    /\ pc' = "fetch_done"
    /\ UNCHANGED <<startVars, gameVars, eventVars, clickVars, hot, elapsed, screen,
                   bookVars, max_retries, tries, attempt_log>>

\* ---------------------------------------------------- handle_bookshelf_click
\* bookshelf_action fires: loading = True, show reader.jpg, wait 2 s
BookshelfStart ==
    /\ Hit("bookshelf_action")
    /\ fired' = Append(fired, current_location.hotspots[hot].name)
    /\ loading' = TRUE
    /\ screen' = SceneScreen("reader")
    /\ steps' = <<"display1">>
    /\ lookups' = 0
    /\ pc' = "bs_wait1"
    /\ UNCHANGED <<startVars, locations, current_pos, running, current_location, eventVars,
                   mouse_pos, nav, last_event, hot, elapsed, book, viewer, fetchVars>>

\* the first wait is over: show reader2.jpg, wait 2 s
BookshelfStep2 ==
    /\ pc = "bs_wait1"
    /\ screen' = SceneScreen("reader2")
    /\ steps' = Append(steps, "display2")
    /\ pc' = "bs_wait2"
    /\ UNCHANGED <<startVars, gameVars, eventVars, clickVars, hot, elapsed, book,
                   viewer, lookups, fetchVars>>

\* the second wait is over: book = self.books_api.get_random_book()
BookshelfLookup ==
    /\ pc = "bs_wait2"
    /\ \E resp \in Responses : book' \in get_random_book(resp)
    /\ lookups' = lookups + 1
    /\ steps' = Append(steps, "lookup")
    /\ pc' = "bs_got"
    /\ UNCHANGED <<startVars, gameVars, eventVars, clickVars, hot, elapsed, screen,
                   viewer, fetchVars>>

\* if book and book['preview_link']
HasPreview(b) == b # Nothing /\ b.preview_link # ""

\* webview_process.start(): the viewer process runs open_webview
BookshelfLaunch ==
    /\ pc = "bs_got"
    /\ HasPreview(book)
    /\ viewer' = "running"
    /\ steps' = Append(steps, "launch")
    /\ pc' = "bs_join"
    /\ UNCHANGED <<startVars, gameVars, eventVars, clickVars, hot, elapsed, screen,
                   book, lookups, fetchVars>>

\* webview_process.start() raises (the process cannot be created): nothing
\* catches it, the exception leaves run()
BookshelfLaunchFails ==
    /\ pc = "bs_got"
    /\ HasPreview(book)
    /\ error' = "OSError"
    /\ pc' = "crashed"
    /\ UNCHANGED <<api_key, window, adds, last_add, gameVars, eventVars, clickVars, hot, elapsed,
                   screen, bookVars, fetchVars>>

\* no book: the launch is skipped
BookshelfSkip ==
    /\ pc = "bs_got"
    /\ ~HasPreview(book)
    /\ pc' = "bs_end"
    /\ UNCHANGED <<startVars, gameVars, eventVars, clickVars, hot, elapsed, screen,
                   bookVars, fetchVars>>

\* open_webview returns in the viewer process (webview.start() ends when the
\* window is closed, or the process dies): the process exits
ViewerExit ==
    /\ viewer = "running"
    /\ viewer' = "exited"
    /\ UNCHANGED <<pc, startVars, gameVars, eventVars, clickVars, hot, elapsed, screen,
                   book, steps, lookups, fetchVars>>

\* the sequence going on without webview_process.join()
BookshelfJoin_NoWait ==
    /\ pc = "bs_join"
    /\ steps' = Append(steps, "joined")
    /\ pc' = "bs_end"
    /\ UNCHANGED <<startVars, gameVars, eventVars, clickVars, hot, elapsed, screen,
                   book, viewer, lookups, fetchVars>>

\* webview_process.join() returns
BookshelfJoin ==
    /\ pc = "bs_join"
    /\ viewer = "exited"
    /\ steps' = Append(steps, "joined")
    /\ pc' = "bs_end"
    /\ UNCHANGED <<startVars, gameVars, eventVars, clickVars, hot, elapsed, screen,
                   book, viewer, lookups, fetchVars>>

\* self.loading = False; the action returns
BookshelfEnd ==
    /\ pc = "bs_end"
    /\ loading' = FALSE
    /\ ReturnToLoop
    /\ book' = Nothing
    /\ viewer' = "none"
    /\ steps' = << >>
    /\ lookups' = 0
    /\ UNCHANGED <<startVars, locations, current_pos, running, current_location, eventVars,
                   clickVars, elapsed, screen, fetchVars>>

\* ------------------------------------------- door6_action, bookfloor_action
\* the image a flicker loop shows at this elapsed time
FlickerImage(first, second) ==
    IF (elapsed \div flicker_interval) % 2 = 0 THEN first ELSE second

\* door6_action fires: start_time = get_ticks()
DoorStart ==
    /\ Hit("door6_action")
    /\ fired' = Append(fired, current_location.hotspots[hot].name)
    /\ elapsed' = 0
    /\ pc' = "door_loop"
    /\ UNCHANGED <<startVars, gameVars, eventVars, mouse_pos, nav, last_event, hot, screen,
                   bookVars, fetchVars>>

\* one iteration of the flicker loop: closet.jpg or black, flip, delay(50)
DoorFlicker ==
    /\ pc = "door_loop"
    /\ elapsed < flicker_duration
    /\ screen' = SceneScreen(FlickerImage("closet", "black"))
    /\ elapsed' = elapsed + flicker_delay
    /\ UNCHANGED <<pc, startVars, gameVars, eventVars, clickVars, hot, bookVars, fetchVars>>

\* the flicker loop is over: door6_action returns
DoorEnd ==
    /\ pc = "door_loop"
    /\ elapsed >= flicker_duration
    /\ ReturnToLoop
    /\ elapsed' = 0
    /\ UNCHANGED <<startVars, gameVars, eventVars, clickVars, screen, bookVars, fetchVars>>

\* bookfloor_action fires: the scream plays, start_time = get_ticks()
FloorStart ==
    /\ Hit("bookfloor_action")
    /\ fired' = Append(fired, current_location.hotspots[hot].name)
    /\ elapsed' = 0
    /\ pc' = "floor_loop"
    /\ UNCHANGED <<startVars, gameVars, eventVars, mouse_pos, nav, last_event, hot, screen,
                   bookVars, fetchVars>>

\* one iteration of the flicker loop: 1.jpg or 2.jpg, flip, delay(50)
FloorFlicker ==
    /\ pc = "floor_loop"
    /\ elapsed < flicker_duration
    /\ screen' = SceneScreen(FlickerImage("img1", "img2"))
    /\ elapsed' = elapsed + flicker_delay
    /\ UNCHANGED <<pc, startVars, gameVars, eventVars, clickVars, hot, bookVars, fetchVars>>

\* the flicker loop is over: bookfloor_action returns
FloorEnd ==
    /\ pc = "floor_loop"
    /\ elapsed >= flicker_duration
    /\ ReturnToLoop
    /\ elapsed' = 0
    /\ UNCHANGED <<startVars, gameVars, eventVars, clickVars, screen, bookVars, fetchVars>>

\* ----------------------------------------------------------- specifications
\* the game loop and its event dispatch
Loop ==
    \/ PostEvent
    \/ FrameStart
    \/ LoopExit
    \/ HandleQuit
    \/ HandleClick
    \/ HotspotMiss
    \/ HotspotsDone
    \/ Draw

\* handle_bookshelf_click
Bookshelf ==
    \/ BookshelfStart
    \/ BookshelfStep2
    \/ BookshelfLookup
    \/ BookshelfLaunch
    \/ BookshelfLaunchFails
    \/ BookshelfSkip
    \/ ViewerExit
    \/ BookshelfJoin
    \/ BookshelfEnd

\* door6_action and bookfloor_action
Flickers ==
    \/ DoorStart
    \/ DoorFlicker
    \/ DoorEnd
    \/ FloorStart
    \/ FloorFlicker
    \/ FloorEnd

\* the program as shipped
Next ==
    \/ DisplaySetMode
    \/ BooksAPIInit
    \/ MainAddLocation
    \/ MainRun
    \/ Loop
    \/ Bookshelf
    \/ Flickers

Spec == Init /\ [][Next]_vars

\* the steps of the main thread: every step of the program but the arrival of
\* an event and the exit of the viewer process
MainThread ==
    \/ DisplaySetMode
    \/ BooksAPIInit
    \/ MainAddLocation
    \/ MainRun
    \/ FrameStart
    \/ LoopExit
    \/ HandleQuit
    \/ HandleClick
    \/ HotspotMiss
    \/ HotspotsDone
    \/ Draw
    \/ BookshelfStart
    \/ BookshelfStep2
    \/ BookshelfLookup
    \/ BookshelfLaunch
    \/ BookshelfLaunchFails
    \/ BookshelfSkip
    \/ BookshelfJoin
    \/ BookshelfEnd
    \/ Flickers

\* the program as shipped, with a main thread that keeps executing (the clock
\* advances, so pygame.time.wait and clock.tick return and the HTTP request
\* ends by its timeout) and a viewer process that exits once started
SpecLive == Spec /\ WF_vars(MainThread) /\ WF_vars(ViewerExit)

\* the Game class under an arbitrary client; none of the scenes it registers
\* binds door6_action or bookfloor_action
NextClient ==
    \/ DisplaySetMode
    \/ BooksAPIInit
    \/ ClientAddLocation
    \/ ClientRun
    \/ Loop
    \/ Bookshelf

SpecClient == Init /\ [][NextClient]_vars

\* a call of get_random_book_with_retries(max_retries) on a constructed API
InitFetch ==
    /\ pc = "fetch_loop"
    /\ api_key = TRUE
    /\ window = FALSE
    /\ error = None
    /\ adds = 0
    /\ last_add = Nothing
    /\ locations = << >>
    /\ current_pos = <<1, 2>>
    /\ loading = FALSE
    /\ running = FALSE
    /\ current_location = Nothing
    /\ queue = << >>
    /\ batch = << >>
    /\ mouse_pos = NoPoint
    /\ hot = 0
    /\ elapsed = 0
    /\ screen = NoScreen
    /\ book = Nothing
    /\ viewer = "none"
    /\ steps = << >>
    /\ lookups = 0
    /\ nav = FALSE
    /\ fired = << >>
    /\ last_event = None
    /\ max_retries \in 0..MaxRetries
    /\ tries = 0
    /\ attempt_log = << >>
    /\ result = Nothing

NextFetch ==
    \/ RetryAttempt
    \/ RetryExhausted

SpecFetch == InitFetch /\ [][NextFetch]_vars

\* =================================================================== claims
IsPrefix(s, t) == Len(s) <= Len(t) /\ \A i \in 1..Len(s) : s[i] = t[i]

\* ------------------------------------------------------------------------ C1
\* the unit grid step of each direction, as the data model states it
Delta(d) ==
    CASE d = NORTH -> <<0, -1>>
      [] d = SOUTH -> <<0, 1>>
      [] d = WEST  -> <<-1, 0>>
      [] d = EAST  -> <<1, 0>>

Legal(d) ==
    /\ current_pos \in DOMAIN locations
    /\ d \in locations[current_pos].allowed_directions
    /\ <<current_pos[1] + Delta(d)[1], current_pos[2] + Delta(d)[2]>> \in DOMAIN locations

\* C1: at every position and for every direction, can_move(d) is true exactly
\* when a scene is registered at the position, d is among its allowed
\* directions and a scene is registered one grid step away in direction d;
\* whether the destination allows the way back plays no part. The arrows a
\* frame draws are the directions for which this holds.
C1_CanMoveIffLegal ==
    /\ \A d \in Direction : can_move(d) <=> Legal(d)
    /\ (pc = "frame" /\ screen.image \notin {None, "loading_text"})
          => screen.arrows = {d \in Direction : Legal(d)}

\* a click on the east arrow at (0,0) has moved the player to (1,0), whose
\* scene allows only north: the way back west is not allowed although (0,0)
\* is registered, and north is allowed but leads to no scene
C1_Witness ==
    /\ nav
    /\ current_pos = <<1, 0>>
    /\ <<0, 0>> \in DOMAIN locations
    /\ locations_get(<<1, 0>>) # Nothing
    /\ locations_get(<<1, 0>>).allowed_directions = {NORTH}
    /\ ~can_move(WEST)
    /\ ~can_move(NORTH)

\* ------------------------------------------------------------------------ C2
\* C2: a click that navigated fires no hotspot action.
C2_NoHotspotAfterNavigation == ~(nav /\ fired # << >>)

\* ------------------------------------------------------------------------ C3
\* the hotspots of the frame's location that contain the point, in insertion order
RECURSIVE Containing(_, _, _)
Containing(hotspots, p, i) ==
    IF i > Len(hotspots)
       THEN << >>
       ELSE IF collidepoint(hotspots[i].rect, p)
               THEN <<hotspots[i].name>> \o Containing(hotspots, p, i + 1)
               ELSE Containing(hotspots, p, i + 1)

\* C3: one click fires at most one hotspot action, that of the first-inserted
\* hotspot containing the point.
C3_FirstHotspotOnly ==
    /\ Len(fired) <= 1
    /\ (fired # << >> /\ mouse_pos # NoPoint)
          => fired[1] = Containing(current_location.hotspots, mouse_pos, 1)[1]

\* ------------------------------------------------------------------------ C4
\* C4: the input-blocked flag is true in every state of a running scripted
\* sequence (bookshelf, door flicker, floor flicker) and false once the
\* sequence has ended.
C4_LoadingDuringSequence ==
    /\ InModal => loading
    /\ (pc \in {"frame", "events", "hotspots"}) => ~loading

\* ------------------------------------------------------------------------ C5
\* the step that takes a click off the frame's events
HandlesClick ==
    /\ pc = "events"
    /\ batch # << >>
    /\ Head(batch).type = MOUSEBUTTONDOWN
    /\ batch' = Tail(batch)

\* C5: while loading is true, handling a click moves nothing and starts
\* nothing: the position is unchanged, no hotspot loop and no scripted action
\* begins, and the flag stays set.
C5_BlockedClickIsDropped ==
    [][(loading /\ HandlesClick) =>
          /\ current_pos' = current_pos
          /\ pc' = "events"
          /\ nav' = FALSE
          /\ fired' = << >>
          /\ loading']_vars

\* a click was dropped while loading, in a scene that has hotspots and an
\* arrow that could be followed
C5_Witness ==
    /\ loading
    /\ last_event = "ignored"
    /\ current_location # Nothing
    /\ current_location.hotspots # << >>
    /\ \E d \in Direction : can_move(d)

\* ------------------------------------------------------------------------ C6
NoUsableItem == \A i \in 1..Len(attempt_log) : attempt_log[i].result = Nothing

\* C6: the retry loop never makes more than max_retries attempts, and when no
\* attempt yields a usable item it returns None after exactly max_retries
\* attempts (none at all when max_retries is 0).
C6_ExhaustsExactly ==
    /\ Len(attempt_log) <= max_retries
    /\ (pc = "fetch_done" /\ NoUsableItem)
          => (Len(attempt_log) = max_retries /\ result = Nothing)

\* three attempts failed in three different ways, and the call returned None
C6_Witness ==
    /\ pc = "fetch_done"
    /\ max_retries = 3
    /\ Len(attempt_log) = 3
    /\ attempt_log[1].response = RequestException
    /\ attempt_log[2].response = BodyWithoutItems(0)
    /\ attempt_log[3].response = Body(1, <<VolumeNoPreview>>)
    /\ result = Nothing

\* ------------------------------------------------------------------------ C7
FirstUsable ==
    CHOOSE k \in 1..Len(attempt_log) :
        /\ attempt_log[k].result # Nothing
        /\ \A j \in 1..(k - 1) : attempt_log[j].result = Nothing

\* C7: when some attempt yields a usable item, the call returns the item of
\* the first such attempt and that attempt is the last one made.
C7_FirstSuccessReturned ==
    (~NoUsableItem) =>
        /\ pc = "fetch_done"
        /\ result = attempt_log[FirstUsable].result
        /\ Len(attempt_log) = FirstUsable

\* the first attempt failed, the second found volume B, no third was made
C7_Witness ==
    /\ pc = "fetch_done"
    /\ max_retries = 3
    /\ Len(attempt_log) = 2
    /\ attempt_log[1].result = Nothing
    /\ attempt_log[2].result = Item(VolumeB)
    /\ result = Item(VolumeB)

\* ------------------------------------------------------------------------ C8
\* C8: the bookshelf sequence skips the viewer launch only after the lookup
\* has been attempted max_retries times, never after one failed attempt.
C8_SkipOnlyAfterRetries ==
    (pc = "bs_end" /\ ~HasPreview(book)) => lookups >= default_max_retries

\* ------------------------------------------------------------------------ C9
BookshelfOrder == <<"display1", "display2", "lookup", "launch", "joined">>

InBookshelf == pc \in {"bs_wait1", "bs_wait2", "bs_got", "bs_join", "bs_end"}

\* C9: the bookshelf sequence shows the first image, then the second, then
\* looks up a book, then launches the viewer only if the lookup returned a
\* book with a preview link; while the viewer process runs the sequence is
\* waiting in join and loading is set; with no book no viewer is launched and
\* the next step ends the sequence.
C9_BookshelfOrder ==
    /\ [](/\ IsPrefix(steps, BookshelfOrder)
          /\ InBookshelf => (loading /\ steps # << >>)
          /\ (viewer # "none") => (HasPreview(book) /\ Len(steps) >= 4)
          /\ (Len(steps) >= 4) => HasPreview(book)
          /\ (viewer = "running") => (pc = "bs_join" /\ loading)
          /\ (pc = "bs_end" /\ ~HasPreview(book))
                => (viewer = "none" /\ steps = <<"display1", "display2", "lookup">>))
    /\ [][/\ (pc = "bs_got" /\ ~HasPreview(book) /\ pc' # pc) => pc' = "bs_end"
          /\ (loading /\ ~loading') => (pc = "bs_end" /\ viewer # "running")]_vars

\* the viewer process has exited and join has returned, loading still set
C9_Witness ==
    /\ pc = "bs_end"
    /\ viewer = "exited"
    /\ loading
    /\ steps = BookshelfOrder

\* ----------------------------------------------------------------------- C10
\* C10: startup never creates the window and then raises the
\* missing-credential error.
C10_NoWindowBeforeCredentialError == ~(error = "ValueError" /\ window)

\* ----------------------------------------------------------------------- C11
\* the scene a Location was constructed as, whatever image it has loaded
SameScene(stored, scene) ==
    /\ stored.image_path = scene.image_path
    /\ stored.allowed_directions = scene.allowed_directions
    /\ stored.hotspots = scene.hotspots

\* C11: add_location(pos, scene) with a coordinate of pos below 0 or above 2
\* leaves the registered scenes unchanged; with pos inside the 3x3 grid it
\* stores scene at pos, replacing the scene already there if any, and leaves
\* every other position as it was.
C11_AddLocation ==
    [][(adds' = adds + 1) =>
          LET pos == last_add'.grid_pos
              scene == last_add'.location
          IN  IF pos[1] \in 0..2 /\ pos[2] \in 0..2
                 THEN /\ DOMAIN locations' = (DOMAIN locations) \cup {pos}
                      /\ SameScene(locations'[pos], scene)
                      /\ \A p \in (DOMAIN locations) \ {pos} : locations'[p] = locations[p]
                 ELSE locations' = locations]_vars

\* scene3 was registered at (1,1), then the call add_location((3,0), scene1)
\* returned and (1,1) is still the only registered position
C11_Witness ==
    /\ adds = 2
    /\ last_add # Nothing
    /\ last_add.grid_pos = <<3, 0>>
    /\ last_add.location = library_location
    /\ DOMAIN locations = {<<1, 1>>}
    /\ SameScene(locations[<<1, 1>>], location3)

\* ----------------------------------------------------------------------- C12
\* the arrows whose rectangle contains the point the click read
ClickedArrows(p) == {d \in Direction : p # NoPoint /\ collidepoint(arrows[d], p)}

\* C12: a click on the arrow of direction d handled while loading is false,
\* with the player at P, leaves the player at P + delta(d) when d is allowed
\* at P and leads to a registered scene, and at P otherwise; a click handled
\* where no direction can be moved to leaves the player at P.
C12_ArrowClick ==
    [][(HandlesClick /\ ~loading) =>
          /\ \A d \in ClickedArrows(mouse_pos') :
                current_pos' = IF Legal(d)
                                  THEN <<current_pos[1] + Delta(d)[1],
                                         current_pos[2] + Delta(d)[2]>>
                                  ELSE current_pos
          /\ (\A d \in Direction : ~Legal(d)) => current_pos' = current_pos]_vars

\* the grid holds scene1 (east, south) at (0,0) and scene3 (west) at (1,0) and
\* nothing else; the frame began at (0,0), an east click of the frame moved the
\* player to (1,0), and the east click handled last left the player at (1,0)
C12_Witness ==
    /\ DOMAIN locations = {<<0, 0>>, <<1, 0>>}
    /\ SameScene(locations[<<0, 0>>], library_location)
    /\ SameScene(locations[<<1, 0>>], location3)
    /\ current_location = locations[<<0, 0>>]
    /\ current_pos = <<1, 0>>
    /\ pc = "hotspots"
    /\ last_event = "click"
    /\ mouse_pos = PointEast
    /\ ~nav

\* ----------------------------------------------------------------------- C13
\* C13: a failure to launch the viewer in the bookshelf sequence is not fatal:
\* the game loop is still running after it.
C13_LaunchFailureNotFatal == (error = "OSError") => (pc \in RunPcs)

\* ----------------------------------------------------------------------- C14
\* C14: every scripted sequence that has begun eventually returns to the
\* hotspot loop it was called from with loading false, given that the clock
\* advances and the viewer process exits once launched.
C14_SequencesFinish == InModal ~> (pc = "hotspots" /\ ~loading)

\* ----------------------------------------------------------------------- C15
\* the volume records a response carries, and the result count it states
RecordsOf(response) ==
    IF "items" \in DOMAIN response
       THEN {response.items[k] : k \in 1..Len(response.items)}
       ELSE {}

CountOf(response) ==
    IF "totalItems" \in DOMAIN response THEN response.totalItems ELSE 0

\* C15: every item an attempt returns has a non-empty preview link and has the
\* title and link of one of the records of that attempt's response; an attempt
\* whose response states a result count of zero, or carries no record with a
\* non-empty preview link, returns no item; the item the retry loop returns is
\* the one its last attempt returned.
C15_ReturnedItemIsPreviewable ==
    /\ \A i \in 1..Len(attempt_log) :
          LET response == attempt_log[i].response
              item == attempt_log[i].result
          IN  /\ (item # Nothing) =>
                    /\ item.preview_link # ""
                    /\ \E v \in RecordsOf(response) :
                          v.title = item.title /\ v.previewLink = item.preview_link
              /\ (\/ CountOf(response) = 0
                  \/ \A v \in RecordsOf(response) : v.previewLink = "")
                    => item = Nothing
    /\ (result # Nothing) =>
          /\ result.preview_link # ""
          /\ result = attempt_log[Len(attempt_log)].result

\* the response listed a record without a preview link before volume A
\* and the attempt returned volume A
C15_Witness ==
    /\ pc = "fetch_done"
    /\ attempt_log # << >>
    /\ attempt_log[Len(attempt_log)].response = Body(2, <<VolumeNoPreview, VolumeA>>)
    /\ result = Item(VolumeA)

\* ----------------------------------------------------------------------- C16
\* the number of grid steps between two positions
GridDistance(p, q) ==
    (IF p[1] > q[1] THEN p[1] - q[1] ELSE q[1] - p[1])
       + (IF p[2] > q[2] THEN p[2] - q[2] ELSE q[2] - p[2])

\* C16: from a position that holds a registered scene, no step of the running
\* game leads to a position outside the 3x3 grid or to one that holds no
\* registered scene (so a game started on a registered scene stays on
\* registered scenes), and handling one click changes the position by at
\* most one grid step.
C16_PositionStaysRegistered ==
    [][(pc \in RunPcs) =>
          /\ (current_pos \in DOMAIN locations) =>
                /\ current_pos' \in DOMAIN locations'
                /\ current_pos'[1] \in 0..2
                /\ current_pos'[2] \in 0..2
          /\ GridDistance(current_pos, current_pos') <= 1
          /\ (current_pos' # current_pos) => HandlesClick]_vars

\* the player stands on the scene that allows only north, registered in the
\* top row, and the click on the north arrow handled last moved nothing
C16_Witness ==
    /\ pc = "hotspots"
    /\ last_event = "click"
    /\ mouse_pos = PointNorth
    /\ ~nav
    /\ current_pos = <<1, 0>>
    /\ current_pos \in DOMAIN locations
    /\ SameScene(locations[current_pos], north_only)
    /\ current_location = locations[current_pos]

\* ----------------------------------------------------------------------- C17
\* the names of the hotspots of the scene registered at the player's position
HotspotsHere ==
    IF current_pos \in DOMAIN locations
       THEN {locations[current_pos].hotspots[k].name :
                k \in 1..Len(locations[current_pos].hotspots)}
       ELSE {}

\* C17: every hotspot action the click being handled has fired is bound to a
\* hotspot of the scene registered at the player's current position.
C17_ActionOfCurrentScene == \A i \in 1..Len(fired) : fired[i] \in HotspotsHere

\* ----------------------------------------------------------------------- C18
\* C18: handling a click that arrived while a scripted sequence was running
\* moves the player nowhere and leads to no hotspot action, whenever it is
\* handled.
C18_ClickDuringSequenceNeverDispatched ==
    [][(HandlesClick /\ Head(batch).blocked) =>
          /\ ~nav'
          /\ current_pos' = current_pos
          /\ (mouse_pos' # NoPoint)
                => Containing(current_location.hotspots, mouse_pos', 1) = << >>]_vars

\* ----------------------------------------------------------------------- C19
\* C19: once run() has handled a QUIT event, a click handled after it (running
\* is false and the event handled last is a click) moves the player nowhere
\* and fires no hotspot action.
C19_NothingDispatchedAfterQuit ==
    (pc \in RunPcs /\ ~running /\ last_event = "click") => (~nav /\ fired = << >>)

\* ----------------------------------------------------------------------- C20
\* the positions one legal move away from p in the registered layout
MovesFrom(p) ==
    {q \in DOMAIN locations :
        \E d \in locations[p].allowed_directions :
            q = <<p[1] + Delta(d)[1], p[2] + Delta(d)[2]>>}

\* the positions reachable from those of S by legal moves
RECURSIVE ReachableFrom(_)
ReachableFrom(S) ==
    LET T == S \cup UNION {MovesFrom(p) : p \in S}
    IN  IF T = S THEN S ELSE ReachableFrom(T)

\* C20: in the layout main() builds, with the player starting at (1,2), at the
\* start of every frame every registered scene can be reached from the start
\* by legal moves, the start can be reached back from every registered scene,
\* and the player is on one of these scenes; the moves the running game allows
\* at the player's position are always the legal moves of that layout.
C20_MainLayoutConnected ==
    /\ (pc = "frame") =>
          LET fromStart == ReachableFrom({<<1, 2>>})
          IN  /\ <<1, 2>> \in DOMAIN locations
              /\ fromStart = DOMAIN locations
              /\ \A p \in DOMAIN locations : <<1, 2>> \in ReachableFrom({p})
              /\ current_pos \in fromStart
    /\ (pc \in RunPcs) =>
          /\ current_pos \in DOMAIN locations
          /\ {get_new_position(d) : d \in {e \in Direction : can_move(e)}}
                = MovesFrom(current_pos)

\* a click has just moved the player into (2,0), three moves from the start
\* and the scene with a single exit, which can be taken
C20_Witness ==
    /\ pc \in RunPcs
    /\ nav
    /\ current_pos = <<2, 0>>
    /\ Cardinality(DOMAIN locations) = 9
    /\ can_move(WEST)

====
